---- MODULE Spec2Model ----
(***************************************************************************)
(* Model of axdevice_base (src/src/lib.rs): the region descriptor and its  *)
(* lookup, the DeviceEvent flag encoding, the NotificationConfig /         *)
(* InterruptConfig conversions, the DeviceNotifier -> InterruptTrigger     *)
(* adapter, the default methods of BaseDeviceOps and map_device_of_type.   *)
(*                                                                         *)
(* Encodings.                                                              *)
(*  - usize is modelled at a width of UsizeBits bits: TLC's integers are   *)
(*    32-bit, so the width is scaled down and every usize operation is     *)
(*    taken modulo 2^UsizeBits exactly as the machine does at its width.   *)
(*  - An arithmetic overflow panics when the crate is built with overflow  *)
(*    checks (debug profile) and wraps otherwise (release profile); the    *)
(*    variable overflow_checks is the profile of the build.                *)
(*  - A u32 flag word is the set of the positions of its one-bits, a       *)
(*    subset of 0..31: 1 << k is {k}, & is \cap, | is \cup, 0 is {}.       *)
(*  - Option<T>: None / Some(v).  A call either returns, Ret(v), or        *)
(*    panics, Panic.                                                       *)
(*  - Record constructors list their fields in the order in which TLC     *)
(*    interns the field names, so that no record shared between workers    *)
(*    is reordered while it is read.                                       *)
(***************************************************************************)
EXTENDS Integers, Sequences, FiniteSets, TLC

VARIABLES overflow_checks, panicked, reg, desc, ncfg, nsrc, notifier, dev, res

vars == <<overflow_checks, panicked, reg, desc, ncfg, nsrc, notifier, dev, res>>

----------------------------------------------------------------------------
(* Values shared by all parts *)

None == [some |-> FALSE]

Some(v) == [some |-> TRUE, val |-> v]

Ret(v) == [val |-> v, panic |-> FALSE]

Panic == [panic |-> TRUE]

NoValue == [absent |-> TRUE]

NoCall == [op |-> "none"]

----------------------------------------------------------------------------
(* usize *)

UsizeBits == 3

UsizeModulus == 2 ^ UsizeBits

UsizeMax == UsizeModulus - 1

Usize == 0 .. UsizeMax

\* a + b on usize: panics on overflow with overflow checks, wraps without
usize_add(a, b) ==
  IF a + b > UsizeMax
    THEN (IF overflow_checks THEN Panic ELSE Ret((a + b) % UsizeModulus))
    ELSE Ret(a + b)

----------------------------------------------------------------------------
(* DeviceRegion *)

RegionId_CONTROL == 0

RegionId_NOTIFICATION == 2

RegionId_DEFAULT == 5

RegionIds == {RegionId_CONTROL, RegionId_DEFAULT}

RegionTypes == {"Generic", "Notification"}

PermissionsSet == {"ReadWrite", "ReadOnly"}

DeviceRegion_new(id, name, base, size) ==
  [id |-> id, name |-> name, base |-> base, size |-> size,
   region_type |-> "Generic", permissions |-> "ReadWrite"]

with_type(self, region_type) == [self EXCEPT !.region_type = region_type]

with_permissions(self, permissions) == [self EXCEPT !.permissions = permissions]

\* addr >= self.base && addr < self.base + self.size; && evaluates the sum
\* only when the first operand is true
contains(self, addr) ==
  IF addr < self.base
    THEN Ret(FALSE)
    ELSE LET e == usize_add(self.base, self.size)
         IN  IF e.panic THEN Panic ELSE Ret(addr < e.val)

RegionHit(self, addr) ==
  [region_type |-> self.region_type, permissions |-> self.permissions,
   region_id |-> self.id, offset |-> addr - self.base]

try_hit(self, addr) ==
  LET c == contains(self, addr)
  IN  IF c.panic THEN Panic
      ELSE IF c.val THEN Ret(Some(RegionHit(self, addr)))
      ELSE Ret(None)

----------------------------------------------------------------------------
(* RegionDescriptor: regions is an ArrayVec<DeviceRegion, 8>, a sequence    *)

MAX_REGIONS_PER_DEVICE == 8

RegionDescriptor_new == << >>

\* mutant: a full descriptor drops the new region and is returned
with_region_truncating(self, region) ==
  IF Len(self) >= MAX_REGIONS_PER_DEVICE THEN Ret(self) ELSE Ret(Append(self, region))

\* self.regions.push(region); self   -- ArrayVec::push panics when the
\* vector is full
with_region(self, region) ==
  IF Len(self) >= MAX_REGIONS_PER_DEVICE THEN Panic ELSE Ret(Append(self, region))

single(base, size) ==
  with_region(RegionDescriptor_new, DeviceRegion_new(RegionId_DEFAULT, "default", base, size))

len(self) == Len(self)

RECURSIVE find_map(_, _, _)
\* self.regions.iter().find_map(|r| r.try_hit(addr)) from element i on
find_map(regions, i, addr) ==
  IF i > Len(regions)
    THEN Ret(None)
    ELSE LET h == try_hit(regions[i], addr)
         IN  IF h.panic THEN Panic
             ELSE IF h.val.some THEN h
             ELSE find_map(regions, i + 1, addr)

lookup(self, addr) == find_map(self, 1, addr)

----------------------------------------------------------------------------
(* Specification of one DeviceRegion: it is built by new / with_type /     *)
(* with_permissions and queried by contains / try_hit.                     *)

Idle ==
  /\ panicked = FALSE
  /\ reg = NoValue
  /\ desc = None
  /\ ncfg = NoValue
  /\ nsrc = NoValue
  /\ notifier = NoValue
  /\ dev = NoValue
  /\ res = NoCall

InitRegion ==
  /\ overflow_checks \in BOOLEAN
  /\ Idle

DeviceRegionNew(id, base, size) ==
  /\ ~panicked
  /\ reg = NoValue
  /\ reg' = DeviceRegion_new(id, "region", base, size)
  /\ res' = [op |-> "DeviceRegion::new", result |-> Ret(reg')]
  /\ UNCHANGED <<overflow_checks, panicked, desc, ncfg, nsrc, notifier, dev>>

WithType(region_type) ==
  /\ ~panicked
  /\ reg # NoValue
  /\ reg' = with_type(reg, region_type)
  /\ res' = [op |-> "with_type", result |-> Ret(reg')]
  /\ UNCHANGED <<overflow_checks, panicked, desc, ncfg, nsrc, notifier, dev>>

WithPermissions(permissions) ==
  /\ ~panicked
  /\ reg # NoValue
  /\ reg' = with_permissions(reg, permissions)
  /\ res' = [op |-> "with_permissions", result |-> Ret(reg')]
  /\ UNCHANGED <<overflow_checks, panicked, desc, ncfg, nsrc, notifier, dev>>

ContainsCall(addr) ==
  /\ ~panicked
  /\ reg # NoValue
  /\ res' = [op |-> "contains", self |-> reg, addr |-> addr, result |-> contains(reg, addr)]
  /\ panicked' = res'.result.panic
  /\ UNCHANGED <<overflow_checks, reg, desc, ncfg, nsrc, notifier, dev>>

TryHitCall(addr) ==
  /\ ~panicked
  /\ reg # NoValue
  /\ res' = [op |-> "try_hit", self |-> reg, addr |-> addr, result |-> try_hit(reg, addr)]
  /\ panicked' = res'.result.panic
  /\ UNCHANGED <<overflow_checks, reg, desc, ncfg, nsrc, notifier, dev>>

NextRegion ==
  \/ \E id \in RegionIds, base \in Usize, size \in Usize : DeviceRegionNew(id, base, size)
  \/ \E t \in RegionTypes : WithType(t)
  \/ \E p \in PermissionsSet : WithPermissions(p)
  \/ \E addr \in Usize : ContainsCall(addr)
  \/ \E addr \in Usize : TryHitCall(addr)

SpecRegion == InitRegion /\ [][NextRegion]_vars

----------------------------------------------------------------------------
(* Specification of a RegionDescriptor: it is built by new / single /      *)
(* with_region from the regions of RegionPool and queried by lookup.       *)

\* [1,4) Control; [2,5) Notification, read-only, overlapping the first;
\* the last two addresses of the address space
RegionPool ==
  { with_type(DeviceRegion_new(RegionId_CONTROL, "control", 1, 3), "Control"),
    with_permissions(with_type(DeviceRegion_new(RegionId_NOTIFICATION, "notify", 2, 3),
                               "Notification"), "ReadOnly"),
    DeviceRegion_new(RegionId_DEFAULT, "top", UsizeMax - 1, 2) }

SingleArgs == { <<0, 2>> }

InitDescriptor ==
  /\ overflow_checks \in BOOLEAN
  /\ Idle

RegionDescriptorNew ==
  /\ ~panicked
  /\ desc' = Some(RegionDescriptor_new)
  /\ res' = [op |-> "RegionDescriptor::new", result |-> Ret(RegionDescriptor_new)]
  /\ UNCHANGED <<overflow_checks, panicked, reg, ncfg, nsrc, notifier, dev>>

\* desc is the descriptor the builder holds, None when there is none; self
\* is moved into with_region, so after a panic no descriptor is left
WithRegion(region) ==
  /\ ~panicked
  /\ desc.some
  /\ res' = [op |-> "with_region", self |-> desc.val, region |-> region,
             result |-> with_region(desc.val, region)]
  /\ panicked' = res'.result.panic
  /\ desc' = IF res'.result.panic THEN None ELSE Some(res'.result.val)
  /\ UNCHANGED <<overflow_checks, reg, ncfg, nsrc, notifier, dev>>

Single(base, size) ==
  /\ ~panicked
  /\ res' = [op |-> "single", result |-> single(base, size)]
  /\ panicked' = res'.result.panic
  /\ desc' = IF res'.result.panic THEN None ELSE Some(res'.result.val)
  /\ UNCHANGED <<overflow_checks, reg, ncfg, nsrc, notifier, dev>>

LookupCall(addr) ==
  /\ ~panicked
  /\ desc.some
  /\ res' = [op |-> "lookup", self |-> desc.val, addr |-> addr,
             result |-> lookup(desc.val, addr)]
  /\ panicked' = res'.result.panic
  /\ UNCHANGED <<overflow_checks, reg, desc, ncfg, nsrc, notifier, dev>>

NextDescriptor ==
  \/ RegionDescriptorNew
  \/ \E region \in RegionPool : WithRegion(region)
  \/ \E a \in SingleArgs : Single(a[1], a[2])
  \/ \E addr \in Usize : LookupCall(addr)

SpecDescriptor == InitDescriptor /\ [][NextDescriptor]_vars

----------------------------------------------------------------------------
(* DeviceEvent and its flag encoding *)

MaxEventIndex == 17

IrqType_Primary == [tag |-> "Primary"]

IrqType_Additional(n) == [tag |-> "Additional", n |-> n]

IrqTypes == {IrqType_Primary} \cup {IrqType_Additional(n) : n \in 0 .. MaxEventIndex}

DeviceEvent_DataReady == [tag |-> "DataReady"]

DeviceEvent_SpaceAvailable == [tag |-> "SpaceAvailable"]

DeviceEvent_ConfigChanged == [tag |-> "ConfigChanged"]

DeviceEvent_Irq(irq_type) == [tag |-> "Irq", irq |-> irq_type]

DeviceEvent_Custom(n) == [tag |-> "Custom", n |-> n]

DeviceEvents ==
  {DeviceEvent_DataReady, DeviceEvent_SpaceAvailable, DeviceEvent_ConfigChanged}
    \cup {DeviceEvent_Irq(t) : t \in IrqTypes}
    \cup {DeviceEvent_Custom(n) : n \in 0 .. MaxEventIndex}

\* 1 << k on u32: a shift by 32 or more panics with overflow checks and
\* shifts by k mod 32 without
shl1(k) ==
  IF k >= 32
    THEN (IF overflow_checks THEN Panic ELSE Ret({k % 32}))
    ELSE Ret({k})

\* mutant: the index of a custom event is not reduced modulo 16
as_flag_unreduced(self) ==
  CASE self.tag = "DataReady" -> shl1(0)
    [] self.tag = "SpaceAvailable" -> shl1(1)
    [] self.tag = "ConfigChanged" -> shl1(2)
    [] self.tag = "Irq" /\ self.irq.tag = "Primary" -> shl1(3)
    [] self.tag = "Irq" /\ self.irq.tag = "Additional" -> shl1(4 + (self.irq.n % 12))
    [] self.tag = "Custom" -> shl1(16 + self.n)

as_flag(self) ==
  CASE self.tag = "DataReady" -> shl1(0)
    [] self.tag = "SpaceAvailable" -> shl1(1)
    [] self.tag = "ConfigChanged" -> shl1(2)
    [] self.tag = "Irq" /\ self.irq.tag = "Primary" -> shl1(3)
    [] self.tag = "Irq" /\ self.irq.tag = "Additional" -> shl1(4 + (self.irq.n % 12))
    [] self.tag = "Custom" -> shl1(16 + (self.n % 16))

\* mutant: | in place of &
is_set_in_or(self, flags) ==
  LET f == as_flag(self)
  IN  IF f.panic THEN Panic ELSE Ret((flags \cup f.val) # {})

\* (flags & self.as_flag()) != 0
is_set_in(self, flags) ==
  LET f == as_flag(self)
  IN  IF f.panic THEN Panic ELSE Ret((flags \cap f.val) # {})

\* the flag words the events are tested against: every combination of
\* these bits
FlagBits == {0, 4, 15, 16, 31}

FlagWords == SUBSET FlagBits

InitEvent ==
  /\ overflow_checks \in BOOLEAN
  /\ Idle

AsFlagCall(ev) ==
  /\ ~panicked
  /\ res' = [op |-> "as_flag", self |-> ev, result |-> as_flag(ev)]
  /\ panicked' = res'.result.panic
  /\ UNCHANGED <<overflow_checks, reg, desc, ncfg, nsrc, notifier, dev>>

IsSetInCall(ev, flags) ==
  /\ ~panicked
  /\ res' = [op |-> "is_set_in", self |-> ev, result |-> is_set_in(ev, flags),
             flags |-> flags]
  /\ panicked' = res'.result.panic
  /\ UNCHANGED <<overflow_checks, reg, desc, ncfg, nsrc, notifier, dev>>

NextEvent ==
  \/ \E ev \in DeviceEvents : AsFlagCall(ev)
  \/ \E ev \in DeviceEvents, flags \in FlagWords : IsSetInCall(ev, flags)

SpecEvent == InitEvent /\ [][NextEvent]_vars

----------------------------------------------------------------------------
(* InterruptConfig and NotificationConfig *)

MaxIrq == 1

MaxAdditional == 2

MaxCpu == 1

TriggerModes == {"Edge", "Level", "Msi", "MsiX"}

CpuAffinity_Fixed(cpu) == [tag |-> "Fixed", cpu |-> cpu]

CpuAffinities ==
  {CpuAffinity_Fixed(c) : c \in 0 .. MaxCpu}
    \cup {[tag |-> "RoundRobin"], [tag |-> "LoadBalance"], [tag |-> "Broadcast"]}

NotifyMethods == {"Interrupt", "Poll", "Callback", "Event"}

IrqNumbers == 0 .. MaxIrq

\* Vec<u32> of at most MaxAdditional irq numbers
IrqLists == UNION {[1 .. n -> IrqNumbers] : n \in 0 .. MaxAdditional}

\* u8 priorities: both ends and the default
Priorities == {0, 100, 255}

InterruptConfigs ==
  [primary_irq : IrqNumbers, additional_irqs : IrqLists, trigger_mode : TriggerModes,
   cpu_affinity : CpuAffinities, priority : Priorities]

NotificationConfig_default ==
  [primary_irq |-> None, additional_irqs |-> << >>, trigger_mode |-> "Level",
   cpu_affinity |-> CpuAffinity_Fixed(0), priority |-> 100,
   method |-> "Interrupt", coalesce |-> FALSE]

interrupt(irq) ==
  [NotificationConfig_default EXCEPT !.method = "Interrupt", !.primary_irq = Some(irq)]

\* mutant: coalescing is left at its default
poll_uncoalesced ==
  [NotificationConfig_default EXCEPT !.method = "Poll", !.primary_irq = None]

poll ==
  [NotificationConfig_default EXCEPT !.method = "Poll", !.primary_irq = None,
                                     !.coalesce = TRUE]

event ==
  [NotificationConfig_default EXCEPT !.method = "Event", !.primary_irq = None,
                                     !.coalesce = TRUE]

\* mutant: the priority is left at its default
from_interrupt_config_default_priority(config) ==
  [primary_irq |-> Some(config.primary_irq),
   additional_irqs |-> config.additional_irqs, trigger_mode |-> config.trigger_mode,
   cpu_affinity |-> config.cpu_affinity, priority |-> 100,
   method |-> "Interrupt", coalesce |-> FALSE]

from_interrupt_config(config) ==
  [primary_irq |-> Some(config.primary_irq),
   additional_irqs |-> config.additional_irqs, trigger_mode |-> config.trigger_mode,
   cpu_affinity |-> config.cpu_affinity, priority |-> config.priority,
   method |-> "Interrupt", coalesce |-> FALSE]

\* mutant: a missing primary irq becomes irq 0 (unwrap_or_default in place
\* of ?)
to_interrupt_config_irq0(self) ==
  IF self.method # "Interrupt" THEN None
  ELSE Some([primary_irq |-> IF self.primary_irq.some THEN self.primary_irq.val ELSE 0,
             additional_irqs |-> self.additional_irqs,
             trigger_mode |-> self.trigger_mode,
             cpu_affinity |-> self.cpu_affinity,
             priority |-> self.priority])

\* self.primary_irq? returns None from the function when there is no irq
to_interrupt_config(self) ==
  IF self.method # "Interrupt" THEN None
  ELSE IF ~self.primary_irq.some THEN None
  ELSE Some([primary_irq |-> self.primary_irq.val,
             additional_irqs |-> self.additional_irqs,
             trigger_mode |-> self.trigger_mode,
             cpu_affinity |-> self.cpu_affinity,
             priority |-> self.priority])

with_cpu_affinity(self, affinity) == [self EXCEPT !.cpu_affinity = affinity]

with_priority(self, priority) == [self EXCEPT !.priority = priority]

with_coalesce(self, coalesce) == [self EXCEPT !.coalesce = coalesce]

with_trigger_mode(self, mode) == [self EXCEPT !.trigger_mode = mode]

(* Specification of one NotificationConfig: ncfg is built by one of its    *)
(* constructors, changed by the with_ builders and converted by            *)
(* to_interrupt_config.  nsrc is the caller's InterruptConfig while ncfg   *)
(* is its conversion, NoValue otherwise.                                   *)

InitNotify ==
  /\ overflow_checks \in BOOLEAN
  /\ Idle

Construct(op, cfg, src) ==
  /\ ncfg = NoValue
  /\ ncfg' = cfg
  /\ nsrc' = src
  /\ res' = [op |-> op, result |-> cfg]
  /\ UNCHANGED <<overflow_checks, panicked, reg, desc, notifier, dev>>

Build(op, cfg) ==
  /\ ncfg # NoValue
  /\ ncfg' = cfg
  /\ nsrc' = NoValue
  /\ res' = [op |-> op, result |-> cfg]
  /\ UNCHANGED <<overflow_checks, panicked, reg, desc, notifier, dev>>

DefaultCall == Construct("default", NotificationConfig_default, NoValue)

InterruptCall(irq) == Construct("interrupt", interrupt(irq), NoValue)

PollCall == Construct("poll", poll, NoValue)

EventCall == Construct("event", event, NoValue)

FromInterruptConfigCall(config) ==
  Construct("from_interrupt_config", from_interrupt_config(config), config)

WithCpuAffinityCall(affinity) == Build("with_cpu_affinity", with_cpu_affinity(ncfg, affinity))

WithPriorityCall(priority) == Build("with_priority", with_priority(ncfg, priority))

WithCoalesceCall(coalesce) == Build("with_coalesce", with_coalesce(ncfg, coalesce))

WithTriggerModeCall(mode) == Build("with_trigger_mode", with_trigger_mode(ncfg, mode))

ToInterruptConfigCall ==
  /\ ncfg # NoValue
  /\ res' = [op |-> "to_interrupt_config", self |-> ncfg, result |-> to_interrupt_config(ncfg)]
  /\ UNCHANGED <<overflow_checks, panicked, reg, desc, ncfg, nsrc, notifier, dev>>

NextNotify ==
  \/ DefaultCall
  \/ \E irq \in IrqNumbers : InterruptCall(irq)
  \/ PollCall
  \/ EventCall
  \/ \E config \in InterruptConfigs : FromInterruptConfigCall(config)
  \/ \E affinity \in CpuAffinities : WithCpuAffinityCall(affinity)
  \/ \E priority \in Priorities : WithPriorityCall(priority)
  \/ \E coalesce \in BOOLEAN : WithCoalesceCall(coalesce)
  \/ \E mode \in TriggerModes : WithTriggerModeCall(mode)
  \/ ToInterruptConfigCall

SpecNotify == InitNotify /\ [][NextNotify]_vars

----------------------------------------------------------------------------
(* DeviceNotifier and its InterruptTrigger adapter.  A notifier is a type  *)
(* that implements notify and method and may override clear; its notify    *)
(* (and its clear, when overridden) fails on the events of notify_errs     *)
(* (clear_errs).  Every operation returns the calls it made on the         *)
(* notifier together with its result.                                      *)

Ok == [ok |-> TRUE]

Err == [ok |-> FALSE]

Call(m, ev) == [method |-> m, event |-> ev]

\* the events on which a notifier of the model may fail
FailingEvents ==
  {DeviceEvent_Irq(IrqType_Primary), DeviceEvent_Irq(IrqType_Additional(0)),
   DeviceEvent_Irq(IrqType_Additional(1))}

Notifiers ==
  [method : {"Interrupt", "Poll"}, notify_errs : SUBSET FailingEvents,
   clear_overridden : {FALSE}, clear_errs : {{}}]
    \cup [method : {"Interrupt", "Poll"}, notify_errs : SUBSET FailingEvents,
          clear_overridden : {TRUE}, clear_errs : SUBSET FailingEvents]

notify(self, ev) ==
  [result |-> IF ev \in self.notify_errs THEN Err ELSE Ok,
   calls |-> <<Call("notify", ev)>>]

\* the default body returns Ok(()); an overriding notifier decides
DeviceNotifier_clear(self, ev) ==
  [result |-> IF self.clear_overridden /\ ev \in self.clear_errs THEN Err ELSE Ok,
   calls |-> <<Call("clear", ev)>>]

method(self) == self.method

has_pending(self) == FALSE

\* mutant: every trigger is delivered as the primary interrupt
trigger_primary(self, irq_type) == notify(self, DeviceEvent_Irq(IrqType_Primary))

trigger(self, irq_type) == notify(self, DeviceEvent_Irq(irq_type))

InterruptTrigger_clear(self, irq_type) == DeviceNotifier_clear(self, DeviceEvent_Irq(irq_type))

InitAdapter ==
  /\ overflow_checks \in BOOLEAN
  /\ panicked = FALSE
  /\ reg = NoValue
  /\ desc = None
  /\ ncfg = NoValue
  /\ nsrc = NoValue
  /\ notifier \in Notifiers
  /\ dev = NoValue
  /\ res = NoCall

AdapterCall(op, arg, out) ==
  /\ res' = [op |-> op, result |-> out.result, calls |-> out.calls, arg |-> arg]
  /\ UNCHANGED <<overflow_checks, panicked, reg, desc, ncfg, nsrc, notifier, dev>>

TriggerCall(irq_type) == AdapterCall("trigger", irq_type, trigger(notifier, irq_type))

ClearCall(irq_type) ==
  AdapterCall("InterruptTrigger::clear", irq_type, InterruptTrigger_clear(notifier, irq_type))

NotifyCall(e) == AdapterCall("notify", e, notify(notifier, e))

DeviceNotifierClearCall(e) ==
  AdapterCall("DeviceNotifier::clear", e, DeviceNotifier_clear(notifier, e))

NextAdapter ==
  \/ \E irq_type \in IrqTypes : TriggerCall(irq_type)
  \/ \E irq_type \in IrqTypes : ClearCall(irq_type)
  \/ \E e \in DeviceEvents : NotifyCall(e)
  \/ \E e \in DeviceEvents : DeviceNotifierClearCall(e)

SpecAdapter == InitAdapter /\ [][NextAdapter]_vars

----------------------------------------------------------------------------
(* BaseDeviceOps and map_device_of_type.  A device is a value of a         *)
(* concrete type (type_id) with a field, behind an Arc (strong_count); it  *)
(* implements the required operations and overrides the methods named in   *)
(* overrides: an overriding interrupt_config returns legacy_config, an     *)
(* overriding region_descriptor returns Some(layout), an overriding        *)
(* set_notifier stores the notifier in the device's slot.                  *)

DeviceTypes == {"UartDevice", "VirtioDevice"}

MaxField == 1

LegacyConfig ==
  [primary_irq |-> 1, additional_irqs |-> <<0>>, trigger_mode |-> "Edge",
   cpu_affinity |-> [tag |-> "Broadcast"], priority |-> 255]

Layouts ==
  { <<with_type(DeviceRegion_new(RegionId_CONTROL, "control", 1, 3), "Control"),
      with_permissions(with_type(DeviceRegion_new(RegionId_NOTIFICATION, "notify", 2, 3),
                                 "Notification"), "ReadOnly")>>,
    <<DeviceRegion_new(RegionId_DEFAULT, "top", UsizeMax - 1, 2)>> }

Devices ==
  { [type_id |-> t, field |-> v, strong_count |-> 1, overrides |-> o,
     legacy_config |-> c, layout |-> l, slot |-> None] :
      t \in DeviceTypes, v \in 0 .. MaxField,
      o \in SUBSET {"interrupt_config", "region_descriptor", "set_notifier"},
      c \in {None, Some(LegacyConfig)}, l \in Layouts \cup {<< >>} }

\* devices of the program: what a method that is not overridden would
\* return is left at its empty value
ProgramDevices ==
  { d \in Devices :
      /\ "interrupt_config" \notin d.overrides => d.legacy_config = None
      /\ ("region_descriptor" \in d.overrides) = (d.layout # << >>) }

NotifierHandles ==
  { [method |-> m, notify_errs |-> {}, clear_overridden |-> FALSE, clear_errs |-> {}] :
      m \in {"Interrupt", "Poll"} }

interrupt_config(self) ==
  IF "interrupt_config" \in self.overrides THEN self.legacy_config ELSE None

\* mutant: a default configuration in place of none
notification_config_or_default(self) ==
  LET ic == interrupt_config(self)
  IN  IF ic.some THEN Some(from_interrupt_config(ic.val)) ELSE Some(NotificationConfig_default)

\* mutant: the legacy interrupt_config is not consulted
notification_config_ignores_legacy(self) == None

\* self.interrupt_config().map(|ic| NotificationConfig::from_interrupt_config(&ic))
notification_config(self) ==
  LET ic == interrupt_config(self)
  IN  IF ic.some THEN Some(from_interrupt_config(ic.val)) ELSE None

\* the device after set_notifier(n)
set_notifier(self, n) ==
  IF "set_notifier" \in self.overrides THEN [self EXCEPT !.slot = Some(n)] ELSE self

region_descriptor(self) ==
  IF "region_descriptor" \in self.overrides THEN Some(self.layout) ELSE None

\* self.region_descriptor()?.lookup(addr)
region_lookup(self, addr) ==
  LET d == region_descriptor(self)
  IN  IF d.some THEN lookup(d.val, addr) ELSE Ret(None)

notify_region_change(self) == FALSE

\* the closures handed to map_device_of_type and what they return on a
\* device with field v
Closures == {"read_field", "constant"}

Apply(f, v) == IF f = "read_field" THEN v ELSE 42

\* mutant: the type identity check is skipped
map_device_of_type_unchecked(device, T, f) ==
  LET any_arc == [device EXCEPT !.strong_count = @ + 1]
  IN  [result |-> Some(Apply(f, any_arc.field)),
       device |-> [any_arc EXCEPT !.strong_count = @ - 1],
       f_calls |-> 1]

\* any_arc = device.clone(); any_arc.downcast_ref::<T>().map(f); any_arc is
\* dropped on return
map_device_of_type(device, T, f) ==
  LET any_arc == [device EXCEPT !.strong_count = @ + 1]
      is_T == any_arc.type_id = T
  IN  [result |-> IF is_T THEN Some(Apply(f, any_arc.field)) ELSE None,
       device |-> [any_arc EXCEPT !.strong_count = @ - 1],
       f_calls |-> IF is_T THEN 1 ELSE 0]

InitDevice ==
  /\ overflow_checks \in BOOLEAN
  /\ panicked = FALSE
  /\ reg = NoValue
  /\ desc = None
  /\ ncfg = NoValue
  /\ nsrc = NoValue
  /\ notifier = NoValue
  /\ dev \in ProgramDevices
  /\ res = NoCall

NotificationConfigCall ==
  /\ ~panicked
  /\ res' = [op |-> "notification_config", result |-> notification_config(dev), before |-> dev]
  /\ UNCHANGED <<overflow_checks, panicked, reg, desc, ncfg, nsrc, notifier, dev>>

InterruptConfigCall ==
  /\ ~panicked
  /\ res' = [op |-> "interrupt_config", result |-> interrupt_config(dev), before |-> dev]
  /\ UNCHANGED <<overflow_checks, panicked, reg, desc, ncfg, nsrc, notifier, dev>>

SetNotifierCall(n) ==
  /\ ~panicked
  /\ dev' = set_notifier(dev, n)
  /\ res' = [op |-> "set_notifier", arg |-> n, before |-> dev]
  /\ UNCHANGED <<overflow_checks, panicked, reg, desc, ncfg, nsrc, notifier>>

RegionDescriptorCall ==
  /\ ~panicked
  /\ res' = [op |-> "region_descriptor", result |-> region_descriptor(dev), before |-> dev]
  /\ UNCHANGED <<overflow_checks, panicked, reg, desc, ncfg, nsrc, notifier, dev>>

RegionLookupCall(addr) ==
  /\ ~panicked
  /\ res' = [op |-> "region_lookup", addr |-> addr,
             result |-> region_lookup(dev, addr), before |-> dev]
  /\ panicked' = res'.result.panic
  /\ UNCHANGED <<overflow_checks, reg, desc, ncfg, nsrc, notifier, dev>>

NotifyRegionChangeCall ==
  /\ ~panicked
  /\ res' = [op |-> "notify_region_change", result |-> notify_region_change(dev),
             before |-> dev]
  /\ UNCHANGED <<overflow_checks, panicked, reg, desc, ncfg, nsrc, notifier, dev>>

MapDeviceOfTypeCall(T, f) ==
  /\ ~panicked
  /\ LET out == map_device_of_type(dev, T, f)
     IN  /\ dev' = out.device
         /\ res' = [op |-> "map_device_of_type", result |-> out.result, f |-> f,
                    T |-> T, f_calls |-> out.f_calls, before |-> dev]
  /\ UNCHANGED <<overflow_checks, panicked, reg, desc, ncfg, nsrc, notifier>>

NextDevice ==
  \/ NotificationConfigCall
  \/ InterruptConfigCall
  \/ \E n \in NotifierHandles : SetNotifierCall(n)
  \/ RegionDescriptorCall
  \/ \E addr \in Usize : RegionLookupCall(addr)
  \/ NotifyRegionChangeCall
  \/ \E T \in DeviceTypes, f \in Closures : MapDeviceOfTypeCall(T, f)

SpecDevice == InitDevice /\ [][NextDevice]_vars

----------------------------------------------------------------------------
(* Claims about DeviceRegion and RegionDescriptor *)

\* a is in the half-open interval [base, base + size) of the integers
InDomain(r, a) == a >= r.base /\ a < r.base + r.size

\* the hit of the first region, in registration order, whose contains(a)
\* returns true; None when there is none
FirstContaining(regions, a) ==
  LET I == {i \in 1 .. Len(regions) : contains(regions[i], a) = Ret(TRUE)}
  IN  IF I = {} THEN None
      ELSE LET m == CHOOSE i \in I : \A j \in I : i <= j
           IN  Some(RegionHit(regions[m], a))

\* C1: lookup(a) returns the hit of the first region in registration order
\* whose contains(a) is true (id, type, permissions, offset a - base), and
\* None when no region contains a, also for overlapping regions.
C1_LookupFirstContaining ==
  res.op = "lookup" => res.result = Ret(FirstContaining(res.self, res.addr))

\* C2: contains(a) equals (a >= base and a < base + size); try_hit(a) is Some
\* exactly when contains(a) is true and the hit carries offset a - base and
\* the region's id, region_type and permissions.
C2_ContainsIsHalfOpenInterval ==
  /\ res.op = "contains" => res.result = Ret(InDomain(res.self, res.addr))
  /\ res.op = "try_hit" =>
       res.result = Ret(IF InDomain(res.self, res.addr)
                          THEN Some([region_type |-> res.self.region_type,
                                     permissions |-> res.self.permissions,
                                     region_id |-> res.self.id,
                                     offset |-> res.addr - res.self.base])
                          ELSE None)

\* C3: with_region on a descriptor that holds MAX_REGIONS_PER_DEVICE regions
\* panics: no descriptor comes back, neither one with 9 regions nor one that
\* dropped the new region; every descriptor that is returned has len() <= 8
\* and ends with the region that was added.
C3_NinthRegionPanics ==
  /\ desc.some => len(desc.val) <= 8
  /\ res.op = "with_region" =>
       IF len(res.self) >= 8
         THEN res.result = Panic /\ desc = None
         ELSE /\ ~res.result.panic
              /\ desc = Some(res.result.val)
              /\ len(res.result.val) = len(res.self) + 1
              /\ res.result.val[len(res.result.val)] = res.region

C3_Witness ==
  /\ res.op = "with_region"
  /\ len(res.self) = 8
  /\ panicked

----------------------------------------------------------------------------
(* Claims about DeviceEvent *)

\* the bit the event is documented to occupy
FlagBit(e) ==
  CASE e = DeviceEvent_DataReady -> 0
    [] e = DeviceEvent_SpaceAvailable -> 1
    [] e = DeviceEvent_ConfigChanged -> 2
    [] e = DeviceEvent_Irq(IrqType_Primary) -> 3
    [] e.tag = "Irq" /\ e.irq.tag = "Additional" -> 4 + (e.irq.n % 12)
    [] e.tag = "Custom" -> 16 + (e.n % 16)

\* C4: as_flag() returns a 32-bit word with exactly one bit set, at a
\* position in [0,32): DataReady 0, SpaceAvailable 1, ConfigChanged 2,
\* Irq(Primary) 3, Irq(Additional(n)) 4 + n mod 12 (within 4..15),
\* Custom(n) 16 + n mod 16 (within 16..31).
C4_AsFlagOneBit ==
  res.op = "as_flag" =>
    /\ ~res.result.panic
    /\ Cardinality(res.result.val) = 1
    /\ res.result.val \subseteq 0 .. 31
    /\ res.result.val = {FlagBit(res.self)}
    /\ (res.self.tag = "Irq" /\ res.self.irq.tag = "Additional"
          => res.result.val \subseteq 4 .. 15)
    /\ (res.self.tag = "Custom" => res.result.val \subseteq 16 .. 31)

C4_Witness ==
  /\ res.op = "as_flag"
  /\ res.self = DeviceEvent_Custom(17)
  /\ res.result = Ret({17})

\* C5: e.is_set_in(f) is true exactly when f AND e.as_flag() is non-zero,
\* that is when the one bit of e is set in f; the bit is the same at every
\* call.
C5_IsSetInIsMask ==
  res.op = "is_set_in" => res.result = Ret(FlagBit(res.self) \in res.flags)

C5_Witness ==
  /\ res.op = "is_set_in"
  /\ res.self = DeviceEvent_Irq(IrqType_Additional(1))
  /\ res.flags = {0, 31}
  /\ res.result = Ret(FALSE)

\* C6: two distinct DeviceEvent values have distinct flags (each event maps
\* to a unique bit): two successive as_flag calls on different events
\* never return the same word.
C6_DistinctEventsDistinctFlags ==
  [][(res.op = "as_flag" /\ res'.op = "as_flag" /\ res.self # res'.self)
       => res.result # res'.result]_vars

----------------------------------------------------------------------------
(* Claims about NotificationConfig *)

\* C7: from_interrupt_config(&c).to_interrupt_config() returns Some(c') with
\* c' equal to c in every field (primary_irq, additional_irqs in order,
\* trigger_mode, cpu_affinity, priority); the intermediate NotificationConfig
\* has method Interrupt, primary_irq Some(c.primary_irq) and coalesce false.
C7_InterruptConfigRoundTrip ==
  /\ res.op = "from_interrupt_config" =>
       /\ res.result.method = "Interrupt"
       /\ res.result.primary_irq = Some(nsrc.primary_irq)
       /\ res.result.coalesce = FALSE
  /\ (res.op = "to_interrupt_config" /\ nsrc # NoValue) =>
       /\ res.result.some
       /\ res.result.val.primary_irq = nsrc.primary_irq
       /\ res.result.val.additional_irqs = nsrc.additional_irqs
       /\ res.result.val.trigger_mode = nsrc.trigger_mode
       /\ res.result.val.cpu_affinity = nsrc.cpu_affinity
       /\ res.result.val.priority = nsrc.priority

C7_Witness ==
  /\ res.op = "to_interrupt_config"
  /\ nsrc # NoValue
  /\ nsrc.additional_irqs = <<1, 0>>
  /\ nsrc.priority = 255
  /\ nsrc.cpu_affinity = CpuAffinity_Fixed(1)
  /\ res.result = Some(nsrc)

----------------------------------------------------------------------------
(* Claims about the InterruptTrigger adapter *)

\* C8: for every DeviceNotifier, trigger(irq_type) performs exactly one
\* notify(DeviceEvent::Irq(irq_type)) and returns its result, and
\* InterruptTrigger::clear(irq_type) performs exactly one
\* DeviceNotifier::clear(DeviceEvent::Irq(irq_type)) and returns its result,
\* with no other call on the notifier.
C8_AdapterForwards ==
  /\ res.op = "trigger" =>
       /\ res.calls = <<[method |-> "notify", event |-> [tag |-> "Irq", irq |-> res.arg]]>>
       /\ res.result.ok = ([tag |-> "Irq", irq |-> res.arg] \notin notifier.notify_errs)
  /\ res.op = "InterruptTrigger::clear" =>
       /\ res.calls = <<[method |-> "clear", event |-> [tag |-> "Irq", irq |-> res.arg]]>>
       /\ res.result.ok = ~(/\ notifier.clear_overridden
                            /\ [tag |-> "Irq", irq |-> res.arg] \in notifier.clear_errs)

C8_Witness ==
  /\ res.op = "trigger"
  /\ res.arg = IrqType_Additional(1)
  /\ res.result = Err
  /\ DeviceEvent_Irq(IrqType_Primary) \notin notifier.notify_errs

----------------------------------------------------------------------------
(* Claims about BaseDeviceOps and map_device_of_type *)

\* C9: map_device_of_type on a handle wrapping concrete type T: asked for T
\* it calls f exactly once on the wrapped value and returns Some(f's result);
\* asked for another type U it returns None without calling f; in both
\* cases the device behind the handle is unchanged and nothing panics.
C9_MapDeviceOfType ==
  res.op = "map_device_of_type" =>
    /\ ~panicked
    /\ dev = res.before
    /\ IF res.T = res.before.type_id
         THEN /\ res.f_calls = 1
              /\ res.result.some
              /\ res.f = "read_field" => res.result.val = res.before.field
              /\ res.f = "constant" => res.result.val = 42
         ELSE /\ res.f_calls = 0
              /\ res.result = None

C9_Witness ==
  /\ res.op = "map_device_of_type"
  /\ res.T = "VirtioDevice"
  /\ res.before.type_id = "UartDevice"
  /\ res.before.slot # None
  /\ res.result = None

\* C10: for a device that implements only the four required operations the
\* optional operations are inert: notification_config() returns None,
\* set_notifier(n) changes no device state, region_descriptor() returns
\* None, region_lookup(addr) returns None for every addr and
\* notify_region_change() returns false.
C10_DefaultsInert ==
  (res.op # "none" /\ res.before.overrides = {}) =>
    /\ res.op = "notification_config" => res.result = None
    /\ res.op = "set_notifier" => dev = res.before
    /\ res.op = "region_descriptor" => res.result = None
    /\ res.op = "region_lookup" => res.result = Ret(None)
    /\ res.op = "notify_region_change" => res.result = FALSE

C10_Witness ==
  /\ res.op = "notification_config"
  /\ res.before.overrides = {}
  /\ res.before.type_id = "VirtioDevice"
  /\ res.result = None

----------------------------------------------------------------------------
(* Claims about the values the constructors produce *)

\* C11: every NotificationConfig produced by Default::default, interrupt,
\* poll, event or from_interrupt_config, followed by any sequence of with_
\* builders, satisfies: method == Interrupt implies primary_irq is Some.
C11_InterruptHasPrimaryIrq ==
  ncfg # NoValue => (ncfg.method = "Interrupt" => ncfg.primary_irq.some)

\* C12: NotificationConfig::poll() returns method Poll, coalesce true and
\* primary_irq None with every other field at its default; the flag of
\* DataReady is available for such a configuration, as it is computed from
\* the event alone, without any IRQ number.
C12_PollConfig ==
  res.op = "poll" =>
    /\ res.result.method = "Poll"
    /\ res.result.coalesce = TRUE
    /\ res.result.primary_irq = None
    /\ res.result.additional_irqs = << >>
    /\ res.result.trigger_mode = "Level"
    /\ res.result.cpu_affinity = CpuAffinity_Fixed(0)
    /\ res.result.priority = 100
    /\ ncfg = res.result
    /\ as_flag(DeviceEvent_DataReady) = Ret({0})

C12_Witness ==
  /\ res.op = "poll"
  /\ ncfg # NoValue
  /\ ncfg.method = "Poll"
  /\ ~ncfg.primary_irq.some

\* C13: every DeviceRegion constructed with DeviceRegion::new has size > 0,
\* so its domain [base, base + size) is non-empty and contains(base) is
\* true.
C13_RegionSizePositive ==
  /\ reg # NoValue => reg.size > 0
  /\ (res.op = "contains" /\ res.addr = res.self.base) => res.result = Ret(TRUE)

\* C14: to_interrupt_config() returns None exactly when method != Interrupt
\* or primary_irq == None; otherwise Some(InterruptConfig) with primary_irq,
\* additional_irqs, trigger_mode, cpu_affinity and priority equal to those
\* of the NotificationConfig; the NotificationConfig is not modified.
C14_ToInterruptConfig ==
  res.op = "to_interrupt_config" =>
    /\ ncfg = res.self
    /\ (res.result = None) =
         (res.self.method # "Interrupt" \/ res.self.primary_irq = None)
    /\ res.result # None =>
         /\ res.result.some
         /\ Some(res.result.val.primary_irq) = res.self.primary_irq
         /\ res.result.val.additional_irqs = res.self.additional_irqs
         /\ res.result.val.trigger_mode = res.self.trigger_mode
         /\ res.result.val.cpu_affinity = res.self.cpu_affinity
         /\ res.result.val.priority = res.self.priority

C14_Witness ==
  /\ res.op = "to_interrupt_config"
  /\ res.self.method = "Interrupt"
  /\ res.self.primary_irq = None
  /\ res.self.priority = 255
  /\ res.result = None

----------------------------------------------------------------------------
(* Claims about the legacy interrupt_config *)

\* C15: for a device that overrides interrupt_config() but not
\* notification_config(), the default notification_config() returns
\* Some(from_interrupt_config(ic)) exactly when interrupt_config() returns
\* Some(ic) and None exactly when it returns None; a present result has
\* method Interrupt and primary_irq Some(ic.primary_irq).
C15_NotificationConfigFromLegacy ==
  (res.op = "notification_config" /\ "interrupt_config" \in res.before.overrides) =>
    IF res.before.legacy_config.some
      THEN /\ res.result.some
           /\ res.result.val.method = "Interrupt"
           /\ res.result.val.primary_irq = Some(res.before.legacy_config.val.primary_irq)
           /\ res.result.val.additional_irqs = res.before.legacy_config.val.additional_irqs
           /\ res.result.val.trigger_mode = res.before.legacy_config.val.trigger_mode
           /\ res.result.val.cpu_affinity = res.before.legacy_config.val.cpu_affinity
           /\ res.result.val.priority = res.before.legacy_config.val.priority
           /\ res.result.val.coalesce = FALSE
      ELSE res.result = None

C15_Witness ==
  /\ res.op = "notification_config"
  /\ "interrupt_config" \in res.before.overrides
  /\ res.before.legacy_config.some
  /\ res.result.some
  /\ res.result.val.primary_irq = Some(1)

====
